---- MODULE Spec2Model ----
(***************************************************************************)
(* A model of pygif (lib/gif.py): the GIF container class, its writer      *)
(* GIF.save, its parser GIF.fromFile, and the frame class GraphicBlock.    *)
(*                                                                         *)
(* A byte is a number in 0..255, a byte string is a sequence of bytes, and *)
(* Python's None is the empty tuple: an optional value is <<>> or <<v>>.   *)
(* numpy arrays are modelled flat (row-major), as ravel() and lzw see them.*)
(*                                                                         *)
(* gif.py imports the block codec (spec.py), the entropy coder (lzw) and   *)
(* the bucketization (cutils) from files that are not part of the source   *)
(* tree at hand; those are modelled from their documented layout.          *)
(***************************************************************************)
EXTENDS Integers, Sequences, FiniteSets, TLC

\* ------------------------------------------------------------------ bounds
\* The largest number of frames appended to a Container.
MaxFrames == 2

\* ------------------------------------------------------------------ inputs
\* Canvas sizes (width, height) a Container is constructed with.
Shapes == {<<2, 1>>}
\* Bit depths a Container is constructed with.
BitDepths == {1, 2}
\* The canvas sizes and bit depths of the runs that only save and parse back:
\* a 16x16 frame takes two sub-blocks, a depth of 8 the largest table.
WideShapes == Shapes \cup {<<1, 1>>, <<2, 2>>, <<16, 16>>}
WideBitDepths == BitDepths \cup {8}
\* The keyword arguments of GIF.__init__: the defaults, and both overridden.
Kwargs == {[duration |-> 10, repeat |-> 0], [duration |-> 20, repeat |-> 3]}
\* Posterization levels addRGBFrame is called with.
LevelsSet == {<<2, 2, 2>>, <<6, 7, 6>>}
\* The values a damaged byte of the stream takes.
CorruptValues == {0, 59}

None == <<>>
Some(x) == <<x>>
Min(a, b) == IF a < b THEN a ELSE b
Max(a, b) == IF a > b THEN a ELSE b

\* f.read(n) at offset pos: the bytes that are there, at most n of them.
Read(f, pos, n) == SubSeq(f, pos + 1, Min(pos + n, Len(f)))

U16(n) == <<n % 256, (n \div 256) % 256>>
FromU16(s) == s[1] + 256 * s[2]

\* int(math.log(n, 2)) for a positive n.
RECURSIVE Log2(_)
Log2(n) == IF n <= 1 THEN 0 ELSE 1 + Log2(n \div 2)

\* ------------------------------------------------- block codec (spec.py)
HEADER == <<71, 73, 70, 56, 57, 97>>
TRAILER == 59
IMAGE_SEPARATOR == 44
EXTENSION_INTRODUCER == 33
GRAPHIC_CONTROL_LABEL == 249
COMMENT_EXTENSION_LABEL == 254
APPLICATION_LABEL == 255
APPLICATION_IDENTIFIER == <<78, 69, 84, 83, 67, 65, 80, 69, 50, 46, 48>>
MAX_SUBBLOCK == 255

LogicalScreenDescriptor_toFile(width, height, packed_fields) ==
  U16(width) \o U16(height) \o <<packed_fields, 0, 0>>

\* Reads 7 bytes; TruncatedStreamError when fewer are left.
LogicalScreenDescriptor_fromFile(f, pos) ==
  LET s == Read(f, pos, 7) IN
  IF Len(s) < 7
    THEN [err |-> "TruncatedStreamError", pos |-> pos + Len(s), val |-> None]
    ELSE [err |-> "", pos |-> pos + 7,
          val |-> Some([width |-> FromU16(SubSeq(s, 1, 2)),
                        height |-> FromU16(SubSeq(s, 3, 4)),
                        packed_fields |-> s[5]])]

ImageDescriptor_toFile(width, height, packed_fields) ==
  <<IMAGE_SEPARATOR>> \o U16(0) \o U16(0) \o U16(width) \o U16(height)
    \o <<packed_fields>>

\* Reads the 9 bytes after the image separator.
ImageDescriptor_fromFile(f, pos) ==
  LET s == Read(f, pos, 9) IN
  IF Len(s) < 9
    THEN [err |-> "TruncatedStreamError", pos |-> pos + Len(s), val |-> None]
    ELSE [err |-> "", pos |-> pos + 9,
          val |-> Some([width |-> FromU16(SubSeq(s, 5, 6)),
                        height |-> FromU16(SubSeq(s, 7, 8)),
                        packed_fields |-> s[9]])]

GraphicControlExtension_toFile(duration) ==
  <<EXTENSION_INTRODUCER, GRAPHIC_CONTROL_LABEL, 4, 8>> \o U16(duration)
    \o <<0, 0>>

\* Reads the 6 bytes after the label: block size (4), packed, delay, index,
\* terminator (0).
GraphicControlExtension_fromFile(f, pos) ==
  LET s == Read(f, pos, 6) IN
  IF Len(s) < 6
    THEN [err |-> "TruncatedStreamError", pos |-> pos + Len(s), val |-> None]
    ELSE IF s[1] # 4 \/ s[6] # 0
      THEN [err |-> "FormatError", pos |-> pos + 6, val |-> None]
      ELSE [err |-> "", pos |-> pos + 6,
            val |-> Some([duration |-> FromU16(SubSeq(s, 3, 4))])]

\* Sub-block chunking: runs of at most 255 bytes, each behind its length
\* byte, closed by a zero length byte.
RECURSIVE DataBlock_toFile(_)
DataBlock_toFile(data) ==
  IF Len(data) = 0 THEN <<0>>
  ELSE LET n == Min(MAX_SUBBLOCK, Len(data)) IN
       <<n>> \o SubSeq(data, 1, n) \o DataBlock_toFile(SubSeq(data, n + 1, Len(data)))

RECURSIVE DataBlock_read(_, _, _)
DataBlock_read(f, pos, acc) ==
  LET l == Read(f, pos, 1) IN
  IF Len(l) = 0
    THEN [err |-> "TruncatedStreamError", pos |-> pos, val |-> None]
  ELSE IF l[1] = 0
    THEN [err |-> "", pos |-> pos + 1, val |-> Some(acc)]
  ELSE LET s == Read(f, pos + 1, l[1]) IN
       IF Len(s) < l[1]
         THEN [err |-> "TruncatedStreamError", pos |-> pos + 1 + Len(s), val |-> None]
         ELSE DataBlock_read(f, pos + 1 + l[1], acc \o s)

DataBlock_fromFile(f, pos) == DataBlock_read(f, pos, <<>>)

ApplicationExtension_toFile(repeat) ==
  <<EXTENSION_INTRODUCER, APPLICATION_LABEL, 11>> \o APPLICATION_IDENTIFIER
    \o DataBlock_toFile(<<1>> \o U16(repeat))

\* Reads what follows the label: block size (11), the identifier, and the
\* sub-blocks that carry the loop count.
ApplicationExtension_fromFile(f, pos) ==
  LET s == Read(f, pos, 12) IN
  IF Len(s) < 12
    THEN [err |-> "TruncatedStreamError", pos |-> pos + Len(s), val |-> None]
  ELSE IF s[1] # 11
    THEN [err |-> "FormatError", pos |-> pos + 12, val |-> None]
  ELSE LET d == DataBlock_fromFile(f, pos + 12) IN
       IF d.err # "" THEN d
       ELSE [err |-> "", pos |-> d.pos,
             val |-> Some([repeat |->
                      IF Len(d.val[1]) >= 3 THEN FromU16(SubSeq(d.val[1], 2, 3)) ELSE 0])]

\* ------------------------------------------------- entropy codec (lzw)
\* The contract is decode(encode(x, c), c) = x for indices below 2^c; the
\* bytes depend on the code size, so decoding with another code size does
\* not give the indices back.
lzw_encode(indices, codeSize) ==
  [i \in 1..Len(indices) |-> (indices[i] + codeSize) % 256]

lzw_decode(data, codeSize) ==
  [i \in 1..Len(data) |-> (data[i] + 256 - (codeSize % 256)) % 256]

\* ------------------------------------------------- bucketization (cutils)
\* cutils.reduceColor: values in [0,255] to buckets in [0, levels), monotonic.
reduceColor(channel, levels) ==
  [i \in 1..Len(channel) |-> (channel[i] * levels) \div 256]

\* ------------------------------------------------------------ quantizer
\* The pairs <<d, i>>, 0 <= i <= d <= 255, for which the double product
\* (255./d)*i falls just below the integer 255*i/d, so that int() gives one
\* less than the exact quotient.
RoundedBelow ==
  {<<25, 25>>, <<29, 29>>, <<50, 50>>, <<53, 53>>, <<58, 58>>, <<91, 91>>,
   <<93, 93>>, <<100, 100>>, <<103, 103>>, <<105, 21>>, <<105, 42>>,
   <<105, 49>>, <<105, 77>>, <<105, 84>>, <<105, 91>>, <<105, 98>>,
   <<105, 105>>, <<106, 106>>, <<116, 116>>, <<117, 39>>, <<117, 78>>,
   <<117, 117>>, <<121, 121>>, <<182, 182>>, <<185, 185>>, <<186, 186>>,
   <<187, 11>>, <<187, 22>>, <<187, 44>>, <<187, 77>>, <<187, 88>>,
   <<187, 143>>, <<187, 154>>, <<187, 165>>, <<187, 176>>, <<187, 187>>,
   <<191, 191>>, <<200, 200>>, <<203, 203>>, <<206, 206>>, <<207, 207>>,
   <<210, 42>>, <<210, 84>>, <<210, 98>>, <<210, 154>>, <<210, 168>>,
   <<210, 182>>, <<210, 196>>, <<210, 210>>, <<212, 212>>, <<217, 217>>,
   <<221, 13>>, <<221, 26>>, <<221, 39>>, <<221, 52>>, <<221, 78>>,
   <<221, 91>>, <<221, 104>>, <<221, 143>>, <<221, 156>>, <<221, 169>>,
   <<221, 182>>, <<221, 195>>, <<221, 208>>, <<221, 221>>, <<232, 232>>,
   <<233, 233>>, <<234, 78>>, <<234, 156>>, <<234, 234>>, <<235, 47>>,
   <<235, 94>>, <<235, 188>>, <<235, 235>>, <<242, 242>>}

\* int(conversion*i) with conversion = 255./d, in IEEE double arithmetic.
IntConversion(d, i) ==
  ((255 * i) \div d) - (IF <<d, i>> \in RoundedBelow THEN 1 ELSE 0)

grayscaleColorTable(bits) ==
  [j \in 1..(3 * 2^bits) |-> IntConversion(2^bits - 1, (j - 1) \div 3)]

\* What makeReducedColorTable raises: the assert of line 22, or the division
\* 255./(l-1) of line 23 for a level of 1.
makeReducedColorTable_err(levels) ==
  IF ~(levels[1] * levels[2] * levels[3] < 256) THEN "AssertionError"
  ELSE IF \E c \in 1..3 : levels[c] = 1 THEN "ZeroDivisionError"
  ELSE ""

\* makeReducedColorTable without the padding of line 27.
makeReducedColorTable_unpadded(levels) ==
  [j \in 1..(3 * levels[1] * levels[2] * levels[3]) |->
     IntConversion(levels[3] - 1, ((j - 1) \div 3) % levels[3])]

\* The table of an accepted levels triple (product < 256, every level > 1):
\* red, green, blue per entry, blue varying fastest, padded with 3*(256-n)
\* zero bytes.
makeReducedColorTable(levels) ==
  LET n == levels[1] * levels[2] * levels[3]
      chan(e, c) ==
        IF c = 0 THEN IntConversion(levels[1] - 1, e \div (levels[2] * levels[3]))
        ELSE IF c = 1 THEN IntConversion(levels[2] - 1, (e \div levels[3]) % levels[2])
        ELSE IntConversion(levels[3] - 1, e % levels[3])
  IN [j \in 1..(3 * n) |-> chan((j - 1) \div 3, (j - 1) % 3)]
       \o [j \in 1..(3 * (256 - n)) |-> 0]

\* reduceColorRGB with the red radix built from the red and green levels.
reduceColorRGB_redRadix(channels, levels) ==
  [i \in 1..Len(channels[1]) |->
     (levels[1] * levels[2] * reduceColor(channels[1], levels[1])[i]
      + levels[3] * reduceColor(channels[2], levels[2])[i]
      + reduceColor(channels[3], levels[3])[i]) % 256]

\* channels is a triple of flat arrays; the result is cast to uint8.
reduceColorRGB(channels, levels) ==
  [i \in 1..Len(channels[1]) |->
     (levels[3] * levels[2] * reduceColor(channels[1], levels[1])[i]
      + levels[3] * reduceColor(channels[2], levels[2])[i]
      + reduceColor(channels[3], levels[3])[i]) % 256]

\* Palette indices to three channel arrays; IndexError past the table.
colorPaletteToRGB(image_data, color_table) ==
  LET n_colors == Len(color_table) \div 3 IN
  IF \E i \in 1..Len(image_data) : image_data[i] >= n_colors
    THEN [err |-> "IndexError", val |-> None]
    ELSE [err |-> "",
          val |-> Some([c \in 1..3 |->
                    [i \in 1..Len(image_data) |-> color_table[3 * image_data[i] + c]]])]

\* ------------------------------------------------------------ GraphicBlock
GraphicBlock_init(imageData, shape, colorTable, bitsPerColor) ==
  [imageData |-> imageData, shape |-> shape, colorTable |-> colorTable,
   bitsPerColor |-> bitsPerColor]

\* Python truth of an optional byte string: neither None nor empty.
Truthy(colorTable) == colorTable # None /\ Len(colorTable[1]) > 0

\* The code-size byte GraphicBlock.toFile writes and hands to lzw.encode.
GraphicBlock_codesize(self) ==
  IF Truthy(self.colorTable)
    THEN Max(2, Log2(Len(self.colorTable[1]) \div 3))
    ELSE self.bitsPerColor

\* GraphicBlock.toFile with the floor of 2 applied to the code-size byte
\* only, not to the code size the indices are encoded with.
GraphicBlock_toFile_floorByte(self) ==
  ImageDescriptor_toFile(self.shape[1], self.shape[2], 0)
    \o <<Max(2, self.bitsPerColor)>>
    \o DataBlock_toFile(lzw_encode(self.imageData, self.bitsPerColor))

\* The bytes GraphicBlock.toFile writes.
GraphicBlock_toFile(self) ==
  LET packed_fields ==
        IF Truthy(self.colorTable)
          THEN 128 + Log2(Len(self.colorTable[1]) \div 3) - 1
          ELSE 0
      codesize == GraphicBlock_codesize(self)
  IN ImageDescriptor_toFile(self.shape[1], self.shape[2], packed_fields)
       \o (IF Truthy(self.colorTable) THEN self.colorTable[1] ELSE <<>>)
       \o <<codesize>>
       \o DataBlock_toFile(lzw_encode(self.imageData, codesize))

\* GraphicBlock.fromFile, entered after the image separator was read. The
\* local color table is read (short at end of stream) and dropped; ord('')
\* on a missing code-size byte raises TypeError.
GraphicBlock_fromFile(f, pos) ==
  LET desc == ImageDescriptor_fromFile(f, pos) IN
  IF desc.err # "" THEN desc
  ELSE
    LET d == desc.val[1]
        localColorTable == d.packed_fields \div 128
        colorTable ==
          IF localColorTable # 0
            THEN Read(f, desc.pos, 3 * 2^((d.packed_fields % 8) + 1))
            ELSE <<>>
        pos2 == desc.pos + Len(colorTable)
        cs == Read(f, pos2, 1)
    IN IF Len(cs) = 0
         THEN [err |-> "TypeError", pos |-> pos2, val |-> None]
         ELSE LET data == DataBlock_fromFile(f, pos2 + 1) IN
              IF data.err # "" THEN data
              ELSE [err |-> "", pos |-> data.pos,
                    val |-> Some(GraphicBlock_init(lzw_decode(data.val[1], cs[1]),
                                                   <<d.width, d.height>>, None, 8))]

\* --------------------------------------------------------------------- GIF
DefaultKwargs == [duration |-> 10, repeat |-> 0]

GIF_init(shape, bitsPerColor, kwargs) ==
  [shape |-> shape,
   globalColorTable |-> grayscaleColorTable(bitsPerColor),
   bitsPerColor |-> bitsPerColor,
   graphicBlocks |-> <<>>,
   duration |-> kwargs.duration,
   repeat |-> kwargs.repeat]

\* addFrameFromNumpyData bucketing into 256 levels whatever the bit depth.
GIF_addFrameFromNumpyData_256(self, data) ==
  [self EXCEPT !.graphicBlocks =
     Append(@, GraphicBlock_init(reduceColor(data, 256),
                                 self.shape, None, self.bitsPerColor))]

GIF_addFrameFromNumpyData(self, data) ==
  [self EXCEPT !.graphicBlocks =
     Append(@, GraphicBlock_init(reduceColor(data, 2^self.bitsPerColor),
                                 self.shape, None, self.bitsPerColor))]

GIF_getFrameAsRGB(self, frame_number) ==
  LET block == self.graphicBlocks[frame_number + 1] IN
  IF block.colorTable # None
    THEN colorPaletteToRGB(block.imageData, block.colorTable[1])
    ELSE colorPaletteToRGB(block.imageData, self.globalColorTable)

\* What GIF.save writes, one entry per write in the order of the writes.
GIF_save(self) ==
  << [tag |-> "Header", bytes |-> HEADER],
     [tag |-> "LogicalScreenDescriptor",
      bytes |-> LogicalScreenDescriptor_toFile(self.shape[1], self.shape[2],
                                               128 + (self.bitsPerColor - 1))],
     [tag |-> "GlobalColorTable", bytes |-> self.globalColorTable],
     [tag |-> "ApplicationExtension", bytes |-> ApplicationExtension_toFile(self.repeat)],
     [tag |-> "GraphicControlExtension",
      bytes |-> GraphicControlExtension_toFile(self.duration)] >>
  \o [i \in 1..Len(self.graphicBlocks) |->
        [tag |-> "GraphicBlock", bytes |-> GraphicBlock_toFile(self.graphicBlocks[i])]]
  \o << [tag |-> "Trailer", bytes |-> <<TRAILER>>] >>

\* The file: the writes one after the other.
RECURSIVE Bytes(_)
Bytes(blocks) ==
  IF Len(blocks) = 0 THEN <<>> ELSE Head(blocks).bytes \o Bytes(Tail(blocks))

\* GIF.fromFile without the check of line 95.
fromFile_Header_unchecked(f) ==
  [pc |-> "ScreenDescriptor", pos |-> Len(Read(f, 0, 6)), err |-> ""]

\* GIF.fromFile, line 95: assert f.read(6)==HEADER.
fromFile_Header(f) ==
  LET s == Read(f, 0, 6) IN
  IF s = HEADER
    THEN [pc |-> "ScreenDescriptor", pos |-> Len(s), err |-> ""]
    ELSE [pc |-> "Error", pos |-> Len(s), err |-> "AssertionError"]

\* GIF.fromFile, line 96.
fromFile_ScreenDescriptor(f, pos) ==
  LET r == LogicalScreenDescriptor_fromFile(f, pos) IN
  IF r.err # ""
    THEN [pc |-> "Error", pos |-> r.pos, err |-> r.err, lsd |-> None]
    ELSE [pc |-> "GlobalTable", pos |-> r.pos, err |-> "", lsd |-> r.val]

\* GIF.fromFile, lines 97-102. With the table flag clear, line 101 reads
\* globalColorTableSize, which was never assigned: UnboundLocalError.
fromFile_GlobalTable(f, pos, lsd) ==
  LET globalColorTable == lsd.packed_fields \div 128 IN
  IF globalColorTable # 0
    THEN LET globalColorTableSize == lsd.packed_fields % 8
             colorTable == Read(f, pos, 3 * 2^(globalColorTableSize + 1))
         IN [pc |-> "BlockLoop", pos |-> pos + Len(colorTable), err |-> "",
             g |-> Some([GIF_init(<<lsd.width, lsd.height>>, globalColorTableSize + 1,
                                  DefaultKwargs)
                           EXCEPT !.globalColorTable = colorTable])]
    ELSE [pc |-> "Error", pos |-> pos, err |-> "UnboundLocalError", g |-> None]

\* GIF.fromFile raising the unknown-block exception for an unknown label too.
fromFile_Extension_blockError(f, pos, g) ==
  LET label == Read(f, pos, 1)
      done(r) == IF r.err # ""
                   THEN [pc |-> "Error", pos |-> r.pos, err |-> r.err, g |-> g, result |-> None]
                   ELSE [pc |-> "BlockLoop", pos |-> r.pos, err |-> "", g |-> g, result |-> None]
  IN IF Len(label) = 0
       THEN [pc |-> "Error", pos |-> pos, err |-> "TypeError", g |-> g, result |-> None]
     ELSE IF label[1] = GRAPHIC_CONTROL_LABEL
       THEN done(GraphicControlExtension_fromFile(f, pos + 1))
     ELSE IF label[1] = COMMENT_EXTENSION_LABEL
       THEN done(DataBlock_fromFile(f, pos + 1))
     ELSE IF label[1] = APPLICATION_LABEL
       THEN done(ApplicationExtension_fromFile(f, pos + 1))
     ELSE [pc |-> "Error", pos |-> pos + 1, err |-> "Exception: Unknown block byte",
           g |-> g, result |-> None]

\* GIF.fromFile stepping back onto the introducer of a comment extension
\* instead of reading the comment.
fromFile_Extension_rewind(f, pos, g) ==
  LET label == Read(f, pos, 1)
      done(r) == IF r.err # ""
                   THEN [pc |-> "Error", pos |-> r.pos, err |-> r.err, g |-> g, result |-> None]
                   ELSE [pc |-> "BlockLoop", pos |-> r.pos, err |-> "", g |-> g, result |-> None]
  IN IF Len(label) = 0
       THEN [pc |-> "Error", pos |-> pos, err |-> "TypeError", g |-> g, result |-> None]
     ELSE IF label[1] = GRAPHIC_CONTROL_LABEL
       THEN done(GraphicControlExtension_fromFile(f, pos + 1))
     ELSE IF label[1] = COMMENT_EXTENSION_LABEL
       THEN [pc |-> "BlockLoop", pos |-> pos - 1, err |-> "", g |-> g, result |-> None]
     ELSE IF label[1] = APPLICATION_LABEL
       THEN done(ApplicationExtension_fromFile(f, pos + 1))
     ELSE [pc |-> "Error", pos |-> pos + 1, err |-> "Exception: Unknown label byte",
           g |-> g, result |-> None]

\* GIF.fromFile, lines 110-118: the byte after an extension introducer. The
\* parsed extension is dropped. A missing label matches no label and the
\* message's ord('') raises TypeError.
fromFile_Extension(f, pos, g) ==
  LET label == Read(f, pos, 1)
      done(r) == IF r.err # ""
                   THEN [pc |-> "Error", pos |-> r.pos, err |-> r.err, g |-> g, result |-> None]
                   ELSE [pc |-> "BlockLoop", pos |-> r.pos, err |-> "", g |-> g, result |-> None]
  IN IF Len(label) = 0
       THEN [pc |-> "Error", pos |-> pos, err |-> "TypeError", g |-> g, result |-> None]
     ELSE IF label[1] = GRAPHIC_CONTROL_LABEL
       THEN done(GraphicControlExtension_fromFile(f, pos + 1))
     ELSE IF label[1] = COMMENT_EXTENSION_LABEL
       THEN done(DataBlock_fromFile(f, pos + 1))
     ELSE IF label[1] = APPLICATION_LABEL
       THEN done(ApplicationExtension_fromFile(f, pos + 1))
     ELSE [pc |-> "Error", pos |-> pos + 1, err |-> "Exception: Unknown label byte",
           g |-> g, result |-> None]

\* GIF.fromFile catching a failed frame and returning the frames so far.
fromFile_BlockLoop_partial(f, pos, g) ==
  LET byte == Read(f, pos, 1) IN
  IF Len(byte) = 0 \/ byte = <<TRAILER>>
    THEN [pc |-> "Done", pos |-> pos + Len(byte), err |-> "", g |-> g, result |-> g]
  ELSE IF byte = <<IMAGE_SEPARATOR>>
    THEN LET r == GraphicBlock_fromFile(f, pos + 1) IN
         IF r.err # ""
           THEN [pc |-> "Error", pos |-> r.pos, err |-> r.err, g |-> g, result |-> g]
           ELSE [pc |-> "BlockLoop", pos |-> r.pos, err |-> "",
                 g |-> Some([g[1] EXCEPT !.graphicBlocks = Append(@, r.val[1])]),
                 result |-> None]
  ELSE IF byte = <<EXTENSION_INTRODUCER>>
    THEN fromFile_Extension(f, pos + 1, g)
  ELSE [pc |-> "Error", pos |-> pos + 1, err |-> "Exception: Unknown block byte",
        g |-> g, result |-> None]

\* GIF.fromFile putting each parsed frame in front of the list.
fromFile_BlockLoop_prepend(f, pos, g) ==
  LET byte == Read(f, pos, 1) IN
  IF Len(byte) = 0 \/ byte = <<TRAILER>>
    THEN [pc |-> "Done", pos |-> pos + Len(byte), err |-> "", g |-> g, result |-> g]
  ELSE IF byte = <<IMAGE_SEPARATOR>>
    THEN LET r == GraphicBlock_fromFile(f, pos + 1) IN
         IF r.err # ""
           THEN [pc |-> "Error", pos |-> r.pos, err |-> r.err, g |-> g, result |-> None]
           ELSE [pc |-> "BlockLoop", pos |-> r.pos, err |-> "",
                 g |-> Some([g[1] EXCEPT !.graphicBlocks = <<r.val[1]>> \o @]),
                 result |-> None]
  ELSE IF byte = <<EXTENSION_INTRODUCER>>
    THEN fromFile_Extension(f, pos + 1, g)
  ELSE [pc |-> "Error", pos |-> pos + 1, err |-> "Exception: Unknown block byte",
        g |-> g, result |-> None]

\* GIF.fromFile, lines 103-121: one iteration of the loop, and the return.
fromFile_BlockLoop(f, pos, g) ==
  LET byte == Read(f, pos, 1) IN
  IF Len(byte) = 0 \/ byte = <<TRAILER>>
    THEN [pc |-> "Done", pos |-> pos + Len(byte), err |-> "", g |-> g, result |-> g]
  ELSE IF byte = <<IMAGE_SEPARATOR>>
    THEN LET r == GraphicBlock_fromFile(f, pos + 1) IN
         IF r.err # ""
           THEN [pc |-> "Error", pos |-> r.pos, err |-> r.err, g |-> g, result |-> None]
           ELSE [pc |-> "BlockLoop", pos |-> r.pos, err |-> "",
                 g |-> Some([g[1] EXCEPT !.graphicBlocks = Append(@, r.val[1])]),
                 result |-> None]
  ELSE IF byte = <<EXTENSION_INTRODUCER>>
    THEN fromFile_Extension(f, pos + 1, g)
  ELSE [pc |-> "Error", pos |-> pos + 1, err |-> "Exception: Unknown block byte",
        g |-> g, result |-> None]

\* ------------------------------------------------------------------- state
VARIABLES
  pc,       \* where the program is: "new", "build", "saved", then the parser's
            \* Start, ScreenDescriptor, GlobalTable, BlockLoop, Done or Error
  gif,      \* the Container being built and saved (None before construction)
  call,     \* the last call made on gif, with its arguments
  callErr,  \* the exception that call raised ("" if none)
  written,  \* the writes GIF.save made
  file,     \* the byte stream GIF.fromFile is given
  pos,      \* the parser's offset in file
  lsd,      \* fromFile's lsd
  g,        \* fromFile's g
  err,      \* the exception fromFile raised ("" if none)
  result    \* what fromFile returned (None if it has not returned)

vars == <<pc, gif, call, callErr, written, file, pos, lsd, g, err, result>>

parserVars == <<file, pos, lsd, g, err, result>>

NoCall == [op |-> "none"]

Init ==
  /\ pc = "new"
  /\ gif = None
  /\ call = NoCall
  /\ callErr = ""
  /\ written = <<>>
  /\ file = <<>>
  /\ pos = 0
  /\ lsd = None
  /\ g = None
  /\ err = ""
  /\ result = None

\* The raw frames of a canvas: all pixels 255, and a ramp over the pixels.
RawFrames(shape) ==
  LET n == shape[1] * shape[2] IN
  { [i \in 1..n |-> 255], [i \in 1..n |-> ((i - 1) * 85) % 256] }

\* GIF(shape, bitsPerColor=b, duration=d, repeat=r)
ConstructWith(shapes, depths) ==
  /\ pc = "new"
  /\ \E shape \in shapes, b \in depths, kw \in Kwargs :
       gif' = Some(GIF_init(shape, b, kw))
  /\ pc' = "build"
  /\ call' = [op |-> "GIF"]
  /\ UNCHANGED <<callErr, written>>
  /\ UNCHANGED parserVars

Construct == ConstructWith(Shapes, BitDepths)

ConstructWide == ConstructWith(WideShapes, WideBitDepths)

\* gif.addFrameFromNumpyData(data)
AddFrameFromNumpyData ==
  /\ pc = "build"
  /\ Len(gif[1].graphicBlocks) < MaxFrames
  /\ \E data \in RawFrames(gif[1].shape) :
       gif' = Some(GIF_addFrameFromNumpyData(gif[1], data))
  /\ call' = [op |-> "addFrameFromNumpyData"]
  /\ callErr' = ""
  /\ UNCHANGED <<pc, written>>
  /\ UNCHANGED parserVars

\* gif.addRGBFrame(channels, levels): line 65 calls reduceColorRBG, a name
\* that is not defined, so the call raises NameError before it changes gif.
AddRGBFrame ==
  /\ pc = "build"
  /\ \E r \in RawFrames(gif[1].shape), levels \in LevelsSet :
       call' = [op |-> "addRGBFrame", channels |-> <<r, r, r>>, levels |-> levels,
                before |-> gif[1]]
  /\ callErr' = "NameError"
  /\ UNCHANGED <<pc, gif, written>>
  /\ UNCHANGED parserVars

\* gif.save(filename)
Save ==
  /\ pc = "build"
  /\ written' = GIF_save(gif[1])
  /\ pc' = "saved"
  /\ call' = [op |-> "save"]
  /\ callErr' = ""
  /\ UNCHANGED gif
  /\ UNCHANGED parserVars

StartParse(stream) ==
  /\ pc = "saved"
  /\ file' = stream
  /\ pc' = "Start"
  /\ UNCHANGED <<gif, call, callErr, written, pos, lsd, g, err, result>>

\* GIF.fromFile on the file as saved.
OpenSaved == StartParse(Bytes(written))

\* GIF.fromFile on the file cut short after n bytes.
OpenTruncated ==
  \E n \in 0..(Len(Bytes(written)) - 1) : StartParse(SubSeq(Bytes(written), 1, n))

\* GIF.fromFile on the file with one byte damaged.
OpenCorrupted ==
  \E i \in 1..Len(Bytes(written)), v \in CorruptValues :
    /\ Bytes(written)[i] # v
    /\ StartParse([Bytes(written) EXCEPT ![i] = v])

\* GIF.fromFile on the file with a comment extension before write k (k > 3:
\* after the global color table), as another encoder may have written it.
OpenWithComment ==
  \E k \in 4..Len(written) :
    StartParse(Bytes(SubSeq(written, 1, k - 1))
               \o <<EXTENSION_INTRODUCER, COMMENT_EXTENSION_LABEL>>
               \o DataBlock_toFile(<<104, 105>>)
               \o Bytes(SubSeq(written, k, Len(written))))

\* GIF.fromFile on the file without its global color table: the flag bit of
\* the screen descriptor cleared and the table left out.
OpenWithoutGlobalTable ==
  StartParse(HEADER
             \o LogicalScreenDescriptor_toFile(gif[1].shape[1], gif[1].shape[2], 0)
             \o Bytes(SubSeq(written, 4, Len(written))))

ParseHeader ==
  /\ pc = "Start"
  /\ \E r \in {fromFile_Header(file)} :
       /\ pc' = r.pc
       /\ pos' = r.pos
       /\ err' = r.err
  /\ UNCHANGED <<gif, call, callErr, written, file, lsd, g, result>>

ParseScreenDescriptor ==
  /\ pc = "ScreenDescriptor"
  /\ \E r \in {fromFile_ScreenDescriptor(file, pos)} :
       /\ pc' = r.pc
       /\ pos' = r.pos
       /\ err' = r.err
       /\ lsd' = r.lsd
  /\ UNCHANGED <<gif, call, callErr, written, file, g, result>>

ParseGlobalTable ==
  /\ pc = "GlobalTable"
  /\ \E r \in {fromFile_GlobalTable(file, pos, lsd[1])} :
       /\ pc' = r.pc
       /\ pos' = r.pos
       /\ err' = r.err
       /\ g' = r.g
  /\ UNCHANGED <<gif, call, callErr, written, file, lsd, result>>

ParseBlock ==
  /\ pc = "BlockLoop"
  /\ \E r \in {fromFile_BlockLoop(file, pos, g)} :
       /\ pc' = r.pc
       /\ pos' = r.pos
       /\ err' = r.err
       /\ g' = r.g
       /\ result' = r.result
  /\ UNCHANGED <<gif, call, callErr, written, file, lsd>>

Next ==
  \/ Construct
  \/ AddFrameFromNumpyData
  \/ AddRGBFrame
  \/ Save
  \/ OpenSaved
  \/ OpenTruncated
  \/ OpenCorrupted
  \/ OpenWithComment
  \/ OpenWithoutGlobalTable
  \/ ParseHeader
  \/ ParseScreenDescriptor
  \/ ParseGlobalTable
  \/ ParseBlock

Spec == Init /\ [][Next]_vars

\* GIF.fromFile is one synchronous call: once entered, each of its steps is
\* taken when it is the next one.
ParseStep == ParseHeader \/ ParseScreenDescriptor \/ ParseGlobalTable \/ ParseBlock

\* The streams of Next for the containers of bit depth 1, parsed to the end.
ConstructNarrow == ConstructWith(Shapes, {1})

NextTermination ==
  \/ ConstructNarrow
  \/ AddFrameFromNumpyData
  \/ Save
  \/ OpenSaved
  \/ OpenTruncated
  \/ OpenCorrupted
  \/ OpenWithComment
  \/ OpenWithoutGlobalTable
  \/ ParseHeader
  \/ ParseScreenDescriptor
  \/ ParseGlobalTable
  \/ ParseBlock

SpecTermination == Init /\ [][NextTermination]_vars /\ WF_vars(ParseStep)

\* Build, save and parse back the file as saved, on the wider inputs.
NextRoundTrip ==
  \/ ConstructWide
  \/ AddFrameFromNumpyData
  \/ AddRGBFrame
  \/ Save
  \/ OpenSaved
  \/ ParseHeader
  \/ ParseScreenDescriptor
  \/ ParseGlobalTable
  \/ ParseBlock

SpecRoundTrip == Init /\ [][NextRoundTrip]_vars

\* ------------------------------------------- the functions called directly
\* Bit depths grayscaleColorTable is called with.
QuantBits == 1..8
\* Levels makeReducedColorTable and reduceColorRGB are called with: products
\* below, at and above 256, a level of 1, and a level of 26 (255./25).
QuantLevels ==
  {<<2, 2, 2>>, <<2, 3, 4>>, <<6, 7, 6>>, <<26, 3, 3>>, <<3, 5, 17>>,
   <<8, 8, 4>>, <<9, 6, 5>>, <<1, 2, 2>>}
\* Frames GraphicBlock.toFile is called on: with and without a local table.
FrameTables ==
  {None, Some(grayscaleColorTable(1)), Some(grayscaleColorTable(2)),
   Some(makeReducedColorTable(<<2, 2, 2>>))}
FrameData == {<<0, 1>>, <<1, 0>>, <<1, 1>>}
FrameBits == {2, 8}

\* A channel value that cutils.reduceColor puts in bucket r of levels.
BucketValue(r, levels) == (256 * r + levels - 1) \div levels

CallUnchanged == UNCHANGED <<pc, gif, written, file, pos, lsd, g, err, result>>

\* grayscaleColorTable(bits)
CallGrayscaleColorTable ==
  /\ pc = "new"
  /\ \E bits \in QuantBits :
       call' = [op |-> "grayscaleColorTable", bits |-> bits,
                table |-> grayscaleColorTable(bits)]
  /\ callErr' = ""
  /\ CallUnchanged

\* makeReducedColorTable(levels)
CallMakeReducedColorTable ==
  /\ pc = "new"
  /\ \E levels \in QuantLevels :
       /\ callErr' = makeReducedColorTable_err(levels)
       /\ call' = [op |-> "makeReducedColorTable", levels |-> levels,
                   table |-> IF makeReducedColorTable_err(levels) = ""
                               THEN Some(makeReducedColorTable(levels)) ELSE None]
  /\ CallUnchanged

\* reduceColorRGB(channels, levels) on one pixel whose channels fall in the
\* buckets (r, g, b).
CallReduceColorRGB ==
  /\ pc = "new"
  /\ \E levels \in QuantLevels :
       \E r \in 0..(levels[1] - 1), gr \in 0..(levels[2] - 1), b \in 0..(levels[3] - 1) :
         call' = [op |-> "reduceColorRGB", levels |-> levels, buckets |-> <<r, gr, b>>,
                  data |-> reduceColorRGB(<< <<BucketValue(r, levels[1])>>,
                                             <<BucketValue(gr, levels[2])>>,
                                             <<BucketValue(b, levels[3])>> >>, levels)]
  /\ callErr' = ""
  /\ CallUnchanged

\* GraphicBlock(...).toFile(f), then GraphicBlock.fromFile(f) behind the
\* image separator, as the block loop calls it.
CallGraphicBlockToFileFromFile ==
  /\ pc = "new"
  /\ \E data \in FrameData, table \in FrameTables, bits \in FrameBits :
       LET block == GraphicBlock_init(data, <<2, 1>>, table, bits)
           bytes == GraphicBlock_toFile(block)
       IN call' = [op |-> "GraphicBlock.toFile", block |-> block, bytes |-> bytes,
                   read |-> GraphicBlock_fromFile(bytes, 1)]
  /\ callErr' = ""
  /\ CallUnchanged

NextCalls ==
  \/ CallGrayscaleColorTable
  \/ CallMakeReducedColorTable
  \/ CallReduceColorRGB
  \/ CallGraphicBlockToFileFromFile

SpecCalls == Init /\ [][NextCalls]_vars

\* ------------------------------------------------------------- properties
\* The parser was given the file exactly as GIF.save wrote it.
Intact == pc \notin {"new", "build", "saved"} /\ file = Bytes(written)

Finished == pc \in {"Done", "Error"}

\* C1: a Container built by construction and grayscale appends, saved and
\* parsed back, comes back with the same canvas size, the same number of
\* frames, and frame by frame the same index buffer.
RoundTripFrames ==
  Intact =>
    /\ pc # "Error"
    /\ pc = "Done" =>
         /\ result # None
         /\ result[1].shape = gif[1].shape
         /\ Len(result[1].graphicBlocks) = Len(gif[1].graphicBlocks)
         /\ \A i \in 1..Len(gif[1].graphicBlocks) :
              result[1].graphicBlocks[i].imageData = gif[1].graphicBlocks[i].imageData

\* Two different frames, the first of more than 255 indices, came back.
RoundTripFramesWitness ==
  /\ Intact
  /\ pc = "Done"
  /\ Len(gif[1].graphicBlocks) = 2
  /\ Len(gif[1].graphicBlocks[1].imageData) > MAX_SUBBLOCK
  /\ gif[1].graphicBlocks[1].imageData # gif[1].graphicBlocks[2].imageData
  /\ Len(result[1].graphicBlocks) = 2

\* C2: the delay of the GraphicControlExtension parsed last becomes the
\* duration of the next frame parsed, so every frame parsed from a saved
\* file has the duration the Container was saved with. (The code keeps one
\* duration, the Container's, for all its frames.)
PendingDurationRecovered ==
  (Intact /\ pc = "Done") =>
    \A i \in 1..Len(result[1].graphicBlocks) : result[1].duration = gif[1].duration

\* C3: GIF.save writes Header, LogicalScreenDescriptor, GlobalColorTable,
\* ApplicationExtension, then per frame a GraphicControlExtension directly
\* followed by the frame, then the Trailer.
WriteOrderPerFrame ==
  pc = "saved" =>
    [i \in 1..Len(written) |-> written[i].tag] =
      <<"Header", "LogicalScreenDescriptor", "GlobalColorTable", "ApplicationExtension">>
      \o [i \in 1..(2 * Len(gif[1].graphicBlocks)) |->
            IF i % 2 = 1 THEN "GraphicControlExtension" ELSE "GraphicBlock"]
      \o <<"Trailer">>

\* C4: on a stream whose first 6 bytes are not the signature the parse fails
\* at the header check (the assert's AssertionError is the format error),
\* with no byte past those 6 read, no descriptor and no Container.
BadHeaderFails ==
  (pc \notin {"new", "build", "saved", "Start"} /\ Read(file, 0, 6) # HEADER) =>
    /\ pc = "Error"
    /\ err = "AssertionError"
    /\ pos = Min(6, Len(file))
    /\ lsd = None
    /\ g = None
    /\ result = None

\* A bad signature with more of the stream behind it.
BadHeaderFailsWitness ==
  /\ pc = "Error"
  /\ Read(file, 0, 6) # HEADER
  /\ Len(file) > 6
  /\ pos = 6

\* C5: in the block loop a dispatch byte other than trailer, image separator
\* and extension introducer fails the parse with the unknown-block
\* exception, an unknown label after an extension introducer fails it with
\* the unknown-label exception, another one, and the parse stops just past
\* that byte.
UnknownBlockOrLabelFails ==
  [][(pc = "BlockLoop" /\ pos < Len(file)) =>
       /\ file[pos + 1] \notin {TRAILER, IMAGE_SEPARATOR, EXTENSION_INTRODUCER} =>
            /\ pc' = "Error"
            /\ err' = "Exception: Unknown block byte"
            /\ pos' = pos + 1
            /\ result' = None
       /\ (/\ file[pos + 1] = EXTENSION_INTRODUCER
           /\ pos + 1 < Len(file)
           /\ file[pos + 2] \notin {GRAPHIC_CONTROL_LABEL, COMMENT_EXTENSION_LABEL,
                                    APPLICATION_LABEL}) =>
            /\ pc' = "Error"
            /\ err' = "Exception: Unknown label byte"
            /\ err' # "Exception: Unknown block byte"
            /\ pos' = pos + 2
            /\ result' = None]_vars

\* The parse stopped on an unknown label.
UnknownBlockOrLabelFailsWitness ==
  /\ pc = "Error"
  /\ err = "Exception: Unknown label byte"
  /\ pos >= 2
  /\ file[pos - 1] = EXTENSION_INTRODUCER

\* C6: with the table flag of the screen descriptor clear the parser reads
\* no table byte, goes on to the block loop with a Container without a
\* global color table and completes on a well-formed stream; with the flag
\* set it reads 3*2^(size+1) table bytes.
OptionalGlobalTable ==
  (lsd # None /\ pc # "GlobalTable") =>
    LET flag == lsd[1].packed_fields \div 128
        size == lsd[1].packed_fields % 8
    IN /\ g # None
       /\ IF flag = 0
            THEN Len(g[1].globalColorTable) = 0
            ELSE Len(g[1].globalColorTable) = Min(3 * 2^(size + 1), Len(file) - 13)

\* C7: a Container saved with repeat r and parsed back has repeat r.
LoopCountStored ==
  (Intact /\ pc = "Done") => result[1].repeat = gif[1].repeat

\* C8: addRGBFrame(channels, levels) completes and appends one frame whose
\* index buffer is reduceColorRGB(channels, levels) and whose local table is
\* makeReducedColorTable(levels), and getFrameAsRGB of that frame looks the
\* indices up in that table.
RGBFrameAppended ==
  call.op = "addRGBFrame" =>
    /\ callErr = ""
    /\ Len(gif[1].graphicBlocks) = Len(call.before.graphicBlocks) + 1
    /\ LET n == Len(gif[1].graphicBlocks)
           block == gif[1].graphicBlocks[n]
       IN /\ block.imageData = reduceColorRGB(call.channels, call.levels)
          /\ block.colorTable = Some(makeReducedColorTable(call.levels))
          /\ GIF_getFrameAsRGB(gif[1], n - 1) =
               colorPaletteToRGB(block.imageData, makeReducedColorTable(call.levels))

\* C9: when the parse fails, after however many frames, fromFile returns
\* nothing: no Container reaches the caller.
NoPartialResult ==
  /\ (pc = "Error" \/ err # "") => result = None
  /\ result # None => pc = "Done"

\* The parse failed with a frame already parsed.
NoPartialResultWitness ==
  /\ pc = "Error"
  /\ g # None
  /\ Len(g[1].graphicBlocks) >= 1

\* The offsets at which the saved file can end between two blocks of the
\* block loop.
BlockBoundaries ==
  {Len(Bytes(SubSeq(written, 1, k))) : k \in 3..Len(written)}

\* The stream is the saved file cut inside a field behind the header.
CutInsideField ==
  /\ pc \notin {"new", "build", "saved"}
  /\ Len(file) < Len(Bytes(written))
  /\ file = SubSeq(Bytes(written), 1, Len(file))
  /\ Len(file) >= 6
  /\ Len(file) \notin BlockBoundaries

\* C10: a stream that ends inside a field (a color table, the code-size
\* byte, the label byte, a sub-block) fails the parse with
\* TruncatedStreamError: it neither completes on a short value nor fails
\* with another exception.
TruncationDetected ==
  (CutInsideField /\ Finished) => (pc = "Error" /\ err = "TruncatedStreamError")

\* The entry counts a color table may have.
TableSizes == {2, 4, 8, 16, 32, 64, 128, 256}

\* C11: every table grayscaleColorTable returns for 1..8 bits, and every
\* table makeReducedColorTable returns, holds 3 bytes for each of a number
\* of entries that is one of 2, 4, ..., 256.
ColorTableSize ==
  /\ call.op = "grayscaleColorTable" =>
       /\ Len(call.table) % 3 = 0
       /\ Len(call.table) \div 3 \in TableSizes
       /\ Len(call.table) = 3 * 2^call.bits
  /\ (call.op = "makeReducedColorTable" /\ callErr = "") =>
       /\ Len(call.table[1]) % 3 = 0
       /\ Len(call.table[1]) \div 3 \in TableSizes

\* makeReducedColorTable returned the padded table of 6*7*6 colors.
ColorTableSizeWitness ==
  /\ call.op = "makeReducedColorTable"
  /\ callErr = ""
  /\ call.levels = <<6, 7, 6>>
  /\ Len(call.table[1]) = 768

\* C12: makeReducedColorTable accepts every triple of levels >= 1 whose
\* product is at most 256, a product of exactly 256 and a level of 1
\* included, and rejects exactly the triples whose product exceeds 256.
PosterizedPrecondition ==
  call.op = "makeReducedColorTable" =>
    LET product == call.levels[1] * call.levels[2] * call.levels[3] IN
    /\ product <= 256 => (callErr = "" /\ call.table # None)
    /\ product > 256 => (callErr # "" /\ call.table = None)

\* C13: for levels makeReducedColorTable accepts and buckets r, g, b below
\* them, reduceColorRGB gives the index Lb*Lg*r + Lb*g + b, without wrapping
\* in 8 bits, and that entry of makeReducedColorTable(levels) is the color
\* built from the levels r, g and b.
MixedRadixSymmetry ==
  (call.op = "reduceColorRGB" /\ makeReducedColorTable_err(call.levels) = "") =>
    LET L == call.levels
        index == L[3] * L[2] * call.buckets[1] + L[3] * call.buckets[2] + call.buckets[3]
    IN /\ index < 256
       /\ call.data = <<index>>
       /\ colorPaletteToRGB(call.data, makeReducedColorTable(L)).val =
            Some(<< <<IntConversion(L[1] - 1, call.buckets[1])>>,
                    <<IntConversion(L[2] - 1, call.buckets[2])>>,
                    <<IntConversion(L[3] - 1, call.buckets[3])>> >>)

\* The last entry of the 255-color table of levels (3, 5, 17).
MixedRadixSymmetryWitness ==
  /\ call.op = "reduceColorRGB"
  /\ call.levels = <<3, 5, 17>>
  /\ call.buckets = <<2, 4, 16>>
  /\ call.data = <<254>>

\* The number of entries of the color table that applies to a frame: its
\* local table if it has one, else the Container's global table.
ApplicableEntries(container, block) ==
  IF block.colorTable # None
    THEN Len(block.colorTable[1]) \div 3
    ELSE Len(container.globalColorTable) \div 3

\* C14: after construction and any appends, grayscale or RGB, every index of
\* every frame is below the entry count of the table that applies to it.
IndexInRange ==
  gif # None =>
    \A k \in 1..Len(gif[1].graphicBlocks) :
      LET block == gif[1].graphicBlocks[k] IN
      \A i \in 1..Len(block.imageData) :
        block.imageData[i] < ApplicableEntries(gif[1], block)

\* Two frames, an addRGBFrame call made, and the last frame holds the
\* largest index of the table.
IndexInRangeWitness ==
  /\ pc = "build"
  /\ call.op = "addRGBFrame"
  /\ Len(gif[1].graphicBlocks) = 2
  /\ \E i \in 1..Len(gif[1].graphicBlocks[2].imageData) :
       gif[1].graphicBlocks[2].imageData[i] + 1 =
         ApplicableEntries(gif[1], gif[1].graphicBlocks[2])

\* C15: the code-size byte of every frame GIF.save writes is
\* max(2, log2(entries)) of the frame's local table, or the Container's code
\* size without one, and it is at least 2 and at most 8.
CodeSizeFloor ==
  pc = "saved" =>
    \A k \in 1..Len(gif[1].graphicBlocks) :
      LET block == gif[1].graphicBlocks[k]
          tableLen == IF block.colorTable # None THEN Len(block.colorTable[1]) ELSE 0
          codeSizeByte == written[5 + k].bytes[11 + tableLen]
      IN /\ codeSizeByte =
              IF block.colorTable # None
                THEN Max(2, Log2(tableLen \div 3))
                ELSE gif[1].bitsPerColor
         /\ codeSizeByte >= 2
         /\ codeSizeByte <= 8

\* C16: GraphicBlock.fromFile on the bytes GraphicBlock.toFile wrote reads
\* all of them and returns the frame with the same local color table (none
\* if there was none), the same code size and the same index buffer.
FrameReadMirrorsWrite ==
  call.op = "GraphicBlock.toFile" =>
    /\ call.read.err = ""
    /\ call.read.pos = Len(call.bytes)
    /\ call.read.val[1].imageData = call.block.imageData
    /\ IF call.block.colorTable # None
         THEN /\ call.read.val[1].colorTable = call.block.colorTable
              /\ GraphicBlock_codesize(call.read.val[1]) = GraphicBlock_codesize(call.block)
         ELSE call.read.val[1].colorTable = None

\* C17: in the block loop an image separator has one frame parsed and put
\* at the end of the frame list, the parser staying in the loop; a trailer
\* or the end of the stream at a dispatch position ends the parse with the
\* frames collected so far, in stream order; an extension adds no frame; and
\* nothing is read once the parse is done.
BlockLoopAccumulates ==
  [][/\ pc = "BlockLoop" =>
          LET byte == Read(file, pos, 1) IN
          /\ (byte = <<IMAGE_SEPARATOR>> /\ pc' # "Error") =>
               /\ pc' = "BlockLoop"
               /\ Len(g'[1].graphicBlocks) = Len(g[1].graphicBlocks) + 1
               /\ SubSeq(g'[1].graphicBlocks, 1, Len(g[1].graphicBlocks)) = g[1].graphicBlocks
               /\ g'[1].graphicBlocks[Len(g'[1].graphicBlocks)] =
                    GraphicBlock_fromFile(file, pos + 1).val[1]
               /\ pos' = GraphicBlock_fromFile(file, pos + 1).pos
          /\ (byte = <<>> \/ byte = <<TRAILER>>) =>
               /\ pc' = "Done"
               /\ pos' = pos + Len(byte)
               /\ g' = g
               /\ result' = g
          /\ byte = <<EXTENSION_INTRODUCER>> => g' = g
     /\ pc = "Done" => (pos' = pos /\ result' = result /\ pc' = "Done")]_vars

\* The parse ended on a trailer in front of the second frame of the file,
\* with the one frame before it.
BlockLoopAccumulatesWitness ==
  /\ pc = "Done"
  /\ pos < Len(file)
  /\ file[pos] = TRAILER
  /\ Len(result[1].graphicBlocks) = 1
  /\ Len(gif[1].graphicBlocks) = 2
  /\ result[1].graphicBlocks[1].imageData = gif[1].graphicBlocks[1].imageData
  /\ gif[1].graphicBlocks[1].imageData # gif[1].graphicBlocks[2].imageData

\* round(255*i/d), to the nearest integer.
RoundNearest(i, d) == (2 * 255 * i + d) \div (2 * d)

\* C18: entry i of grayscaleColorTable(b) is the gray round(255*i/(2^b-1)),
\* rounded to nearest, its first entry 0 and its last 255; each channel of
\* an entry of makeReducedColorTable(levels) is round(255*i/(L-1)) likewise.
TableEntryRounding ==
  /\ call.op = "grayscaleColorTable" =>
       /\ \A i \in 0..(2^call.bits - 1) : \A c \in 1..3 :
            call.table[3 * i + c] = RoundNearest(i, 2^call.bits - 1)
       /\ call.table[1] = 0
       /\ call.table[Len(call.table)] = 255
  /\ (call.op = "makeReducedColorTable" /\ callErr = "") =>
       LET L == call.levels IN
       \A r \in 0..(L[1] - 1), gr \in 0..(L[2] - 1), b \in 0..(L[3] - 1) :
         LET e == L[3] * L[2] * r + L[3] * gr + b IN
         /\ call.table[1][3 * e + 1] = RoundNearest(r, L[1] - 1)
         /\ call.table[1][3 * e + 2] = RoundNearest(gr, L[2] - 1)
         /\ call.table[1][3 * e + 3] = RoundNearest(b, L[3] - 1)

\* C19: the global color table of a Container, built or returned by
\* GIF.fromFile, holds 3*2^bitsPerColor bytes, so the size bits GIF.save
\* packs into the screen descriptor describe the table bytes it writes.
GlobalTableSizeMatches ==
  /\ gif # None => Len(gif[1].globalColorTable) = 3 * 2^gif[1].bitsPerColor
  /\ pc = "saved" =>
       Len(written[3].bytes) = 3 * 2^((written[2].bytes[5] % 8) + 1)
  /\ result # None => Len(result[1].globalColorTable) = 3 * 2^result[1].bitsPerColor

\* C20: on every stream GIF.fromFile ends, done or failed: an iteration of
\* the block loop that stays in the loop has moved the offset forward, never
\* past the end of the stream.
ParseTerminates ==
  /\ [][(pc = "BlockLoop" /\ pc' = "BlockLoop") => (pos' > pos /\ pos' <= Len(file))]_vars
  /\ (pc = "Start") ~> Finished

\* The parse of a stream with a comment extension in it ran to its end.
ParseTerminatesWitness ==
  /\ pc = "Done"
  /\ pos = Len(file)
  /\ Len(file) > Len(Bytes(written))
  /\ g # None
  /\ Len(g[1].graphicBlocks) = MaxFrames

====
